---- MODULE Spec2Model ----
(***************************************************************************)
(* Puzzle validation, attempt lifecycle, level progression and achievement *)
(* evaluation of the GeoSudoku web game (games/models.py, games/views.py,  *)
(* games/level_admin_views.py).                                            *)
(*                                                                         *)
(* Conventions.  Python None is the number None (Django row ids start at   *)
(* 1, so it is no shape id).  A percentage is kept in hundredths of a      *)
(* percent (round(x, 2) of the source), so 100.0 is 10000.  A JSON object  *)
(* (dict) is a function whose DOMAIN is its key set.                       *)
(***************************************************************************)
EXTENDS Integers, Sequences, FiniteSets, TLC

VARIABLES
    db,          \* the persistent store: one field per table
    reqs,        \* complete_level_puzzle requests in flight: position and local variables
    last,        \* the api_save_shape_game_state request handled last and its response
    probe        \* validator request under observation: game, payload, response, attempt built from it

vars == <<db, reqs, last, probe>>

-----------------------------------------------------------------------------
(* Bounds of the explored inputs *)

MaxShapeId == 2

MaxLevel == 2

MaxAttempts == 2

MaxRequests == 2

MaxTemplates == 2

\* the clock of the timed runs: its last reading and its resolution, in ticks
MaxTime == 4

TicksPerSecond == 2

-----------------------------------------------------------------------------
(* Values *)

None == 0

ShapeIds == 1..MaxShapeId

\* "row,col" keys a client can send; "9,9" lies outside every grid used here
Keys == {"0,0", "0,1", "9,9"}

\* a placement is a JSON object that may or may not carry 'shapeId';
\* BadPlacement is a JSON value that is no object (placement.get raises)
BadPlacement == [isdict |-> FALSE, shapeId |-> None]

Placement(s) == [isdict |-> TRUE, shapeId |-> s]

PlacementValues == {Placement(s) : s \in ShapeIds \cup {None}} \cup {BadPlacement}

EmptyDict == [k \in {} |-> None]

DictsOver(K, V) == UNION {[D -> V] : D \in SUBSET K}

\* dict.get(key) with the default None
DictGet(d, k) == IF k \in DOMAIN d THEN d[k] ELSE None

-----------------------------------------------------------------------------
(* Placement validator: views.py validate_shape_placement *)

\* lines 819-824: number of '?' cells of grid_data
total_questions_of(grid_data) ==
    Cardinality({rc \in (DOMAIN grid_data) \X (1..9) :
                    /\ rc[2] \in DOMAIN grid_data[rc[1]]
                    /\ grid_data[rc[1]][rc[2]] = "?"})

\* lines 832-835: expected_shape_id == placed_shape_id
is_correct(solution, placements, position) ==
    DictGet(solution, position) = placements[position].shapeId

\* round(x, 2) of the quotient num/den, in hundredths; half-way cases need den >= 32
Round2(num, den) == (2 * 10000 * num + den) \div (2 * den)

\* lines 847-851 and 859
accuracy_of(correct_count, total_questions) ==
    IF total_questions > 0 THEN Round2(correct_count, total_questions) ELSE 0

Max(a, b) == IF a >= b THEN a ELSE b

\* lines 853-856
final_score_of_nofloor(game, correct_count, incorrect_count) ==
    correct_count * game.points_per_correct - incorrect_count * game.penalty_per_wrong

final_score_of(game, correct_count, incorrect_count) ==
    Max(0, correct_count * game.points_per_correct - incorrect_count * game.penalty_per_wrong)

\* lines 869-879: the except branch
validation_error ==
    [accuracy |-> 0, final_score |-> 0, correct_count |-> 0, incorrect_count |-> 0,
     total_questions |-> 0, is_complete |-> FALSE, is_perfect |-> FALSE, error |-> TRUE]

validate_shape_placement(game, placements) ==
    LET total_questions == total_questions_of(game.grid_data)
        correct_count   == Cardinality({p \in DOMAIN placements :
                                is_correct(game.solution_data, placements, p)})
        incorrect_count == Cardinality({p \in DOMAIN placements :
                                ~is_correct(game.solution_data, placements, p)})
    IN  IF \E p \in DOMAIN placements : ~placements[p].isdict
        THEN validation_error
        ELSE [accuracy        |-> accuracy_of(correct_count, total_questions),
              final_score     |-> final_score_of(game, correct_count, incorrect_count),
              correct_count   |-> correct_count,
              incorrect_count |-> incorrect_count,
              total_questions |-> total_questions,
              is_complete     |-> Cardinality(DOMAIN placements) = total_questions,
              is_perfect      |-> incorrect_count = 0
                                  /\ Cardinality(DOMAIN placements) = total_questions,
              error           |-> FALSE]

-----------------------------------------------------------------------------
(* Attempt lifecycle: models.py ShapeGameAttempt, views.py api_save_shape_game_state *)

Users == {"u1"}

Games == {1, 2}

\* models.py 226-243: a row as created by get_or_create(..., defaults={'current_state': {}})
new_attempt(u, g) ==
    [user |-> u, shape_game |-> g, current_state |-> EmptyDict, status |-> "in_progress",
     score |-> 0, accuracy |-> 0, correct_placements |-> 0, incorrect_placements |-> 0]

\* the longest row of a grid
MaxRowLen(grid_data) ==
    IF Len(grid_data) = 0 THEN 0
    ELSE CHOOSE n \in {Len(grid_data[i]) : i \in 1..Len(grid_data)} :
            \A i \in 1..Len(grid_data) : Len(grid_data[i]) <= n

\* forms.py 231: f"{i},{j}" with the 0-based indices of enumerate
CellKey(i, j) == ToString(i - 1) \o "," \o ToString(j - 1)

\* forms.py 227-231: the coordinates of the '?' cells of a grid
question_cells(grid_data) ==
    {CellKey(i, j) : <<i, j>> \in
        {c \in (1..Len(grid_data)) \X (1..MaxRowLen(grid_data)) :
            c[2] <= Len(grid_data[c[1]]) /\ grid_data[c[1]][c[2]] = "?"}}

\* models.py 265-269
calculate_score(attempt, game) ==
    LET correct_points == attempt.correct_placements * game.points_per_correct
        penalty_points == attempt.incorrect_placements * game.penalty_per_wrong
    IN  Max(0, correct_points - penalty_points)

\* the score of the request body is kept at finalize
save_state_fields_client_score(attempt, game, data) ==
    LET placements == data.current_state
        validation_result == validate_shape_placement(game, placements)
    IN  [attempt EXCEPT !.current_state = data.current_state,
                        !.score = data.score,
                        !.status = data.status,
                        !.accuracy = validation_result.accuracy,
                        !.correct_placements = validation_result.correct_count,
                        !.incorrect_placements = validation_result.incorrect_count]

\* views.py 747-768: the fields the handler sets on the attempt before attempt.save()
save_state_fields(attempt, game, data) ==
    LET placements == data.current_state
        updated == [attempt EXCEPT !.current_state = data.current_state,
                                   !.score = data.score,
                                   !.correct_placements = Cardinality(DOMAIN placements),
                                   !.incorrect_placements = 0]
        validation_result == validate_shape_placement(game, placements)
    IN  IF data.status = "completed"
        THEN [updated EXCEPT !.status = "completed",
                             !.accuracy = validation_result.accuracy,
                             !.score = validation_result.final_score,
                             !.correct_placements = validation_result.correct_count,
                             !.incorrect_placements = validation_result.incorrect_count]
        ELSE updated

-----------------------------------------------------------------------------
(* The store *)

LevelNumbers == 1..MaxLevel

\* a LevelPuzzle row is identified by its (level, shape_game) pair (unique_together)
AllSlots == LevelNumbers \X Games

AchIds == {1, 2, 3, 4}

\* models.py 468-489: the Achievement rows of the seeded store
Achievements ==
    [a \in AchIds |->
        CASE a = 1 -> [requirement_type |-> "levels_completed", requirement_value |-> 1,
                       points_reward |-> 50, is_active |-> TRUE]
          [] a = 2 -> [requirement_type |-> "puzzles_solved", requirement_value |-> 2,
                       points_reward |-> 20, is_active |-> TRUE]
          [] a = 3 -> [requirement_type |-> "score_reached", requirement_value |-> 10,
                       points_reward |-> 5, is_active |-> TRUE]
          [] OTHER -> [requirement_type |-> "puzzles_solved", requirement_value |-> 1,
                       points_reward |-> 7, is_active |-> FALSE]]

\* models.py 178-192 with the linked GridTemplate (149-160): one '?' cell at "0,0"
SeedGame(points) ==
    [grid_data |-> <<<<"?", "1">>, <<"2", "1">>>>,
     solution_data |-> [k \in {"0,0"} |-> 1],
     points_per_correct |-> points, penalty_per_wrong |-> 5, is_active |-> TRUE]

\* models.py 36-41
NoLevel == [exists |-> FALSE, puzzles_required |-> 0, is_active |-> FALSE]

Level(required) == [exists |-> TRUE, puzzles_required |-> required, is_active |-> TRUE]

\* models.py 81-87
NoProgress == [exists |-> FALSE, puzzles_completed |-> 0, is_completed |-> FALSE, total_score |-> 0]

NewProgress == [exists |-> TRUE, puzzles_completed |-> 0, is_completed |-> FALSE, total_score |-> 0]

\* models.py 276-285
NoPuzzleAttempt == [exists |-> FALSE, shape_game_attempt |-> 0, is_completed |-> FALSE, score_earned |-> 0]

\* how often the code has executed the crediting statements of a slot or an achievement
NoCredits ==
    [puzzles_completed |-> [us \in Users \X AllSlots |-> 0],
     level_score       |-> [us \in Users \X AllSlots |-> 0],
     user_score        |-> [us \in Users \X AllSlots |-> 0],
     reward            |-> [ua \in Users \X AchIds |-> 0]]

SeedStore ==
    [shape_games       |-> [g \in Games |-> SeedGame(10 * g)],
     levels            |-> [l \in LevelNumbers |-> IF l = 1 THEN Level(2) ELSE Level(1)],
     level_puzzles     |-> {<<1, 1>>, <<1, 2>>, <<2, 1>>},
     attempts          |-> <<>>,
     puzzle_attempts   |-> [us \in Users \X AllSlots |-> NoPuzzleAttempt],
     progress          |-> [ul \in Users \X LevelNumbers |-> NoProgress],
     total_score       |-> [u \in Users |-> 0],
     user_achievements |-> [ua \in Users \X AchIds |-> 0],
     credits           |-> NoCredits,
     grid_templates    |-> <<>>,      \* the GridTemplate rows the admins have authored
     authored_games    |-> <<>>]      \* the ShapeGame rows the admins have authored

\* ShapeGameAttempt.objects.filter(user=u, shape_game=g, status='in_progress')
in_progress_ids(d, u, g) ==
    {i \in 1..Len(d.attempts) : /\ d.attempts[i].user = u
                                /\ d.attempts[i].shape_game = g
                                /\ d.attempts[i].status = "in_progress"}

completed_ids(d, u, g) ==
    {i \in 1..Len(d.attempts) : /\ d.attempts[i].user = u
                                /\ d.attempts[i].shape_game = g
                                /\ d.attempts[i].status = "completed"}

\* a finished attempt of the user is taken up again when none is in progress
attempt_get_or_create_reopen(d, u, g) ==
    IF in_progress_ids(d, u, g) # {} THEN d
    ELSE IF completed_ids(d, u, g) # {}
         THEN [d EXCEPT !.attempts[CHOOSE i \in completed_ids(d, u, g) : TRUE].status = "in_progress"]
         ELSE [d EXCEPT !.attempts = Append(@, new_attempt(u, g))]

\* ShapeGameAttempt.objects.get_or_create(user, shape_game, status=IN_PROGRESS, defaults):
\* the store afterwards; MultipleObjectsReturned is raised when two rows match
attempt_get_or_create(d, u, g) ==
    IF in_progress_ids(d, u, g) = {}
    THEN [d EXCEPT !.attempts = Append(@, new_attempt(u, g))]
    ELSE d

attempt_got(d, u, g) == CHOOSE i \in in_progress_ids(d, u, g) : TRUE

MultipleObjectsReturned(d, u, g) == Cardinality(in_progress_ids(d, u, g)) > 1

-----------------------------------------------------------------------------
(* Level progression: models.py PuzzleLevel, UserLevelProgress *)

\* the previous level's row is looked up without the is_completed=True filter
is_unlocked_for_user_any_row(d, u, level_number) ==
    IF level_number = 1 THEN TRUE
    ELSE LET previous_level == level_number - 1
         IN  IF previous_level <= 0 THEN TRUE
             ELSE IF previous_level \in LevelNumbers /\ d.levels[previous_level].exists
                  THEN d.progress[<<u, previous_level>>].exists
                  ELSE TRUE

\* models.py 56-74
is_unlocked_for_user(d, u, level_number) ==
    IF level_number = 1 THEN TRUE
    ELSE LET previous_level == level_number - 1
         IN  IF previous_level <= 0 THEN TRUE
             ELSE IF previous_level \in LevelNumbers /\ d.levels[previous_level].exists
                  THEN /\ d.progress[<<u, previous_level>>].exists
                       /\ d.progress[<<u, previous_level>>].is_completed
                  ELSE TRUE

\* update_or_create in the place of get_or_create: the row is set to the defaults again
progress_update_or_create(d, u, l) ==
    [d EXCEPT !.progress[<<u, l>>] = NewProgress]

\* UserLevelProgress.objects.get_or_create(user, level, defaults={0, False})
progress_get_or_create(d, u, l) ==
    IF d.progress[<<u, l>>].exists THEN d
    ELSE [d EXCEPT !.progress[<<u, l>>] = NewProgress]

\* every active level after this one gets a row, not the next one only
unlock_following_levels(d, u, level_number) ==
    [d EXCEPT !.progress = [ul \in DOMAIN @ |->
        IF /\ ul[1] = u /\ ul[2] > level_number
           /\ d.levels[ul[2]].exists /\ d.levels[ul[2]].is_active
           /\ ~@[ul].exists
        THEN NewProgress ELSE @[ul]]]

\* models.py 113-125
unlock_next_level(d, u, level_number) ==
    LET next_level_number == level_number + 1
    IN  IF /\ next_level_number \in DOMAIN d.levels
           /\ d.levels[next_level_number].exists
           /\ d.levels[next_level_number].is_active
        THEN progress_get_or_create(d, u, next_level_number)
        ELSE d

\* the threshold is reached one puzzle early
completion_due_early(d, lp, l) ==
    lp.puzzles_completed + 1 >= d.levels[l].puzzles_required /\ ~lp.is_completed

\* the threshold is tested with > in the place of >=
completion_due_strict(d, lp, l) ==
    lp.puzzles_completed > d.levels[l].puzzles_required /\ ~lp.is_completed

\* models.py 105: the test of check_completion on the instance lp
completion_due(d, lp, l) ==
    lp.puzzles_completed >= d.levels[l].puzzles_required /\ ~lp.is_completed

\* the counter is started again when the level completes
check_completion_restart(d, lp, u, l) ==
    IF completion_due(d, lp, l)
    THEN LET done == [lp EXCEPT !.is_completed = TRUE, !.puzzles_completed = 0]
         IN  [db |-> unlock_next_level([d EXCEPT !.progress[<<u, l>>] = done], u, l),
              lp |-> done]
    ELSE [db |-> d, lp |-> lp]

\* models.py 103-111 on the in-memory instance lp of (u, l): the store and the instance afterwards
check_completion(d, lp, u, l) ==
    IF completion_due(d, lp, l)
    THEN LET done == [lp EXCEPT !.is_completed = TRUE]
         IN  [db |-> unlock_next_level([d EXCEPT !.progress[<<u, l>>] = done], u, l),
              lp |-> done]
    ELSE [db |-> d, lp |-> lp]

-----------------------------------------------------------------------------
(* Achievement evaluation: views.py check_user_achievements *)

RECURSIVE SortedSeq(_)
SortedSeq(S) ==
    IF S = {} THEN <<>>
    ELSE LET m == CHOOSE x \in S : \A y \in S : x <= y
         IN  <<m>> \o SortedSeq(S \ {m})

\* views.py 1199: not UserAchievement.objects.filter(user, achievement).exists()
not_yet_earned(d, u, a) == d.user_achievements[<<u, a>>] = 0

\* views.py 1192-1200, 1203-1211, 1214-1222: one requirement type
achievements_of_type(d, u, type, metric) ==
    SortedSeq({a \in AchIds : /\ Achievements[a].requirement_type = type
                               /\ Achievements[a].requirement_value <= metric
                               /\ Achievements[a].is_active
                               /\ not_yet_earned(d, u, a)})

\* views.py 1184
completed_levels(d, u) ==
    Cardinality({l \in LevelNumbers : d.progress[<<u, l>>].exists /\ d.progress[<<u, l>>].is_completed})

\* views.py 1185
total_puzzles(d, u) ==
    Cardinality({i \in 1..Len(d.attempts) : d.attempts[i].user = u /\ d.attempts[i].status = "completed"})

\* only the first qualifying achievement is put on the list
achievements_to_award_first(d, u, total_score) ==
    LET all == achievements_of_type(d, u, "levels_completed", completed_levels(d, u))
                 \o achievements_of_type(d, u, "puzzles_solved", total_puzzles(d, u))
                 \o achievements_of_type(d, u, "score_reached", total_score)
    IN  IF all = <<>> THEN <<>> ELSE <<Head(all)>>

\* views.py 1184-1222: achievements_to_award; total_score is the one of the user instance passed in
achievements_to_award(d, u, total_score) ==
    achievements_of_type(d, u, "levels_completed", completed_levels(d, u))
      \o achievements_of_type(d, u, "puzzles_solved", total_puzzles(d, u))
      \o achievements_of_type(d, u, "score_reached", total_score)

RECURSIVE SumRewards(_)
SumRewards(seq) ==
    IF seq = <<>> THEN 0 ELSE Achievements[Head(seq)].points_reward + SumRewards(Tail(seq))

SeqRange(seq) == {seq[i] : i \in 1..Len(seq)}

\* views.py 1225-1226 with the unique_together of models.py 505: the rows created one by one;
\* a create for an existing (user, achievement) raises IntegrityError and ends the loop
RECURSIVE create_user_achievements(_, _, _)
create_user_achievements(d, u, seq) ==
    IF seq = <<>> THEN [db |-> d, raised |-> FALSE]
    ELSE IF d.user_achievements[<<u, Head(seq)>>] > 0
         THEN [db |-> d, raised |-> TRUE]
         ELSE create_user_achievements(
                 [d EXCEPT !.user_achievements[<<u, Head(seq)>>] = @ + 1], u, Tail(seq))

\* the achievements the user holds are granted again with the new ones: rows are inserted
\* without the unique constraint and every reward is added
award_achievements_regrant(d, u, to_award, user_total) ==
    LET granted == SeqRange(to_award) \cup {a \in AchIds : d.user_achievements[<<u, a>>] > 0}
    IN  [db |-> [d EXCEPT
                    !.user_achievements = [ua \in Users \X AchIds |->
                        IF ua[1] = u /\ ua[2] \in granted THEN @[ua] + 1 ELSE @[ua]],
                    !.total_score[u] = user_total + SumRewards(SortedSeq(granted)),
                    !.credits.reward = [ua \in Users \X AchIds |->
                        IF ua[1] = u /\ ua[2] \in granted THEN @[ua] + 1 ELSE @[ua]]],
         raised |-> FALSE]

\* views.py 1225-1230: award the list computed before; user_total is the total_score of the instance
award_achievements(d, u, to_award, user_total) ==
    LET created == create_user_achievements(d, u, to_award)
    IN  IF created.raised THEN created
        ELSE IF to_award = <<>> THEN created
        ELSE [db |-> [created.db EXCEPT
                        !.total_score[u] = user_total + SumRewards(to_award),
                        !.credits.reward = [ua \in Users \X AchIds |->
                            IF ua[1] = u /\ ua[2] \in SeqRange(to_award) THEN @[ua] + 1 ELSE @[ua]]],
              raised |-> FALSE]

-----------------------------------------------------------------------------
(* views.py complete_level_puzzle with models.py UserPuzzleAttempt.complete_attempt, *)
(* one step per access to the store; q holds the request's local variables            *)

ReqIds == 1..MaxRequests

IdleRequest ==
    [pc |-> "idle", user |-> "u1", level |-> 1, game |-> 1,
     request_user_total |-> 0,      \* request.user.total_score, loaded when the request is authenticated
     is_completed |-> FALSE,        \* user_attempt.is_completed as read at line 1124
     score |-> 0,                   \* shape_attempt.score as read at line 1145
     self_user_total |-> 0,         \* self.user.total_score, loaded at models.py 304
     lp |-> NoProgress,             \* level_progress of models.py 303
     to_award |-> <<>>,             \* achievements_to_award of views.py 1189
     credited |-> FALSE,            \* whether complete_attempt ran its body
     attempt_id |-> 0,              \* the row get_or_create returned (views.py 712, 740)
     instance |-> new_attempt("u1", 1),   \* attempt, the in-memory instance of that row
     success |-> FALSE]

\* what the model keeps of a handled request: the handler, its arguments and its response;
\* credited tells whether complete_attempt ran its body (models.py 296), awarded is the
\* length of the list check_user_achievements returned
NoResponse == [op |-> "none", user |-> "u1", level |-> 1, game |-> 1, finalize |-> FALSE,
               success |-> FALSE, score |-> 0, accuracy |-> 0, credited |-> FALSE, awarded |-> 0]

\* views.py 1118-1120: authenticated request for an active level and an active puzzle of it
clp_accepts(d, u, l, g) ==
    /\ d.levels[l].exists /\ d.levels[l].is_active
    /\ <<l, g>> \in d.level_puzzles

clp_begin(d, u, l, g) ==
    [IdleRequest EXCEPT !.pc = "get_attempt", !.user = u, !.level = l, !.game = g,
                        !.request_user_total = d.total_score[u]]

\* the guard is dropped: complete_attempt runs its body on every call
already_completed_ignored(q) == FALSE

\* models.py 296: the test `if not self.is_completed` on the instance the view loaded
already_completed(q) == q.is_completed

\* the status of the linked ShapeGameAttempt is not looked at
attempt_ready_any_status(d, ua) == ua.exists

\* views.py 1122-1141: a UserPuzzleAttempt exists and its ShapeGameAttempt is completed
attempt_ready(d, ua) ==
    /\ ua.exists
    /\ d.attempts[ua.shape_game_attempt].status = "completed"

credit(c, u, slot) == [c EXCEPT ![<<u, slot>>] = @ + 1]

clp_step(d, q) ==
    LET u    == q.user
        l    == q.level
        slot == <<q.level, q.game>>
        ua   == d.puzzle_attempts[<<u, slot>>]
        fail == [db |-> d, req |-> [q EXCEPT !.pc = "done", !.success = FALSE]]
    IN  CASE q.pc = "get_attempt" ->
                \* views.py 1124-1145
                IF ~attempt_ready(d, ua) THEN fail
                ELSE [db |-> d,
                      req |-> [q EXCEPT !.pc = "complete_attempt",
                                        !.is_completed = ua.is_completed,
                                        !.score = d.attempts[ua.shape_game_attempt].score]]
          [] q.pc = "complete_attempt" ->
                \* models.py 296-300
                IF already_completed(q)
                THEN [db |-> d, req |-> [q EXCEPT !.pc = "check_achievements"]]
                ELSE [db |-> [d EXCEPT !.puzzle_attempts[<<u, slot>>].is_completed = TRUE,
                                       !.puzzle_attempts[<<u, slot>>].score_earned = q.score],
                      req |-> [q EXCEPT !.pc = "get_progress", !.credited = TRUE]]
          [] q.pc = "get_progress" ->
                \* models.py 303-307
                LET got == progress_get_or_create(d, u, l)
                IN  [db |-> got,
                     req |-> [q EXCEPT !.pc = "save_progress",
                                       !.self_user_total = d.total_score[u],
                                       !.lp = got.progress[<<u, l>>]]]
          [] q.pc = "save_progress" ->
                \* models.py 309-311
                LET lp == [q.lp EXCEPT !.puzzles_completed = @ + 1, !.total_score = @ + q.score]
                IN  [db |-> [d EXCEPT !.progress[<<u, l>>] = lp,
                                      !.credits.puzzles_completed = credit(@, u, slot),
                                      !.credits.level_score = credit(@, u, slot)],
                     req |-> [q EXCEPT !.pc = "check_completion", !.lp = lp]]
          [] q.pc = "check_completion" ->
                \* models.py 314, 103-125
                LET checked == check_completion(d, q.lp, u, l)
                IN  [db |-> checked.db,
                     req |-> [q EXCEPT !.pc = "save_user", !.lp = checked.lp]]
          [] q.pc = "save_user" ->
                \* models.py 317-318
                [db |-> [d EXCEPT !.total_score[u] = q.self_user_total + q.score,
                                  !.credits.user_score = credit(@, u, slot)],
                 req |-> [q EXCEPT !.pc = "check_achievements"]]
          [] q.pc = "check_achievements" ->
                \* views.py 1149-1150, 1184-1222
                IF ~d.progress[<<u, l>>].exists THEN fail
                ELSE [db |-> d,
                      req |-> [q EXCEPT !.pc = "award",
                                        !.to_award = achievements_to_award(d, u, q.request_user_total)]]
          [] q.pc = "award" ->
                \* views.py 1225-1230, 1155-1176
                LET awarded == award_achievements(d, u, q.to_award, q.request_user_total)
                IN  [db |-> awarded.db,
                     req |-> [q EXCEPT !.pc = "done", !.success = ~awarded.raised]]
          [] OTHER -> [db |-> d, req |-> q]

RECURSIVE clp_run(_)
clp_run(s) == IF s.req.pc = "done" THEN s ELSE clp_run(clp_step(s.db, s.req))

clp_response(q) ==
    [NoResponse EXCEPT !.op = "complete_level_puzzle", !.user = q.user, !.level = q.level,
                       !.game = q.game, !.success = q.success, !.score = q.score,
                       !.credited = q.credited,
                       !.awarded = IF q.success THEN Len(q.to_award) ELSE 0]

-----------------------------------------------------------------------------
(* Requests of the play and progression handlers, each handled without interleaving *)

\* payloads the players send in the progression runs
PlayPlacements == {[k \in {"0,0"} |-> Placement(1)], [k \in {"0,0"} |-> Placement(2)]}

ClientScores == {25}

SaveData == [current_state : PlayPlacements, score : ClientScores, status : {"in_progress", "completed"}]

NoProbe == [game |-> SeedGame(10), placements |-> EmptyDict, status |-> "none",
            validation |-> validation_error, attempt |-> new_attempt("u1", 1),
            now |-> 1]       \* timezone.now() of the timed runs, in ticks

room_for_attempt(d, u, g) == in_progress_ids(d, u, g) # {} \/ Len(d.attempts) < MaxAttempts

\* views.py 706-728
play_shape_game_view(u, g) ==
    /\ db.shape_games[g].is_active
    /\ ~MultipleObjectsReturned(db, u, g)
    /\ room_for_attempt(db, u, g)
    /\ db' = attempt_get_or_create(db, u, g)
    /\ last' = NoResponse
    /\ UNCHANGED <<reqs, probe>>

\* views.py 732-783: the store after a request that raised nothing
save_shape_game_state(d, u, g, data) ==
    LET got == attempt_get_or_create(d, u, g)
        i   == attempt_got(got, u, g)
    IN  [got EXCEPT !.attempts[i] = save_state_fields(got.attempts[i], got.shape_games[g], data)]

save_response(d, u, g, data) ==
    LET i == attempt_got(attempt_get_or_create(d, u, g), u, g)
        saved == save_shape_game_state(d, u, g, data).attempts[i]
    IN  [NoResponse EXCEPT !.op = "api_save_shape_game_state", !.user = u, !.game = g,
                           !.finalize = data.status = "completed", !.success = TRUE,
                           !.score = saved.score, !.accuracy = saved.accuracy]

api_save_shape_game_state(u, g, data) ==
    /\ db.shape_games[g].is_active
    /\ room_for_attempt(db, u, g)
    /\ IF MultipleObjectsReturned(db, u, g)
       THEN /\ db' = db
            /\ last' = [NoResponse EXCEPT !.op = "api_save_shape_game_state", !.user = u, !.game = g,
                                          !.finalize = data.status = "completed"]
       ELSE /\ db' = save_shape_game_state(db, u, g, data)
            /\ last' = save_response(db, u, g, data)
    /\ UNCHANGED <<reqs, probe>>

\* views.py 1050-1109
level_puzzle_play_view(u, l, g) ==
    LET ua  == db.puzzle_attempts[<<u, <<l, g>>>>]
        got == attempt_get_or_create(db, u, g)
        id  == attempt_got(got, u, g)
        linked == \E us \in Users \X AllSlots :
                     db.puzzle_attempts[us].exists /\ db.puzzle_attempts[us].shape_game_attempt = id
    IN  /\ db.levels[l].exists /\ db.levels[l].is_active
        /\ <<l, g>> \in db.level_puzzles
        /\ is_unlocked_for_user(db, u, l)
        /\ ~(ua.exists /\ ua.is_completed)
        /\ ~MultipleObjectsReturned(db, u, g)
        /\ room_for_attempt(db, u, g)
        /\ db' = IF ua.exists \/ linked THEN got
                 ELSE [got EXCEPT !.puzzle_attempts[<<u, <<l, g>>>>] =
                          [exists |-> TRUE, shape_game_attempt |-> id,
                           is_completed |-> FALSE, score_earned |-> 0]]
        /\ last' = NoResponse
        /\ UNCHANGED <<reqs, probe>>

\* views.py 1112-1176, run from the first to the last statement
complete_level_puzzle(u, l, g) ==
    /\ clp_accepts(db, u, l, g)
    /\ \A r \in ReqIds : reqs[r].pc = "idle"
    /\ LET final == clp_run([db |-> db, req |-> clp_begin(db, u, l, g)])
       IN  /\ db' = final.db
           /\ last' = clp_response(final.req)
    /\ UNCHANGED <<reqs, probe>>

\* views.py 54-65: the loop over the active levels, from level l on
RECURSIVE dashboard_scan(_, _, _)
dashboard_scan(d, u, l) ==
    IF l \notin LevelNumbers THEN d
    ELSE IF d.levels[l].exists /\ d.levels[l].is_active /\ is_unlocked_for_user(d, u, l)
         THEN LET got == progress_get_or_create(d, u, l)
              IN  IF ~got.progress[<<u, l>>].is_completed THEN got
                  ELSE dashboard_scan(got, u, l + 1)
         ELSE dashboard_scan(d, u, l + 1)

\* views.py 30-66: current_level found among the user's rows, else the scan of the levels
dashboard_view(u) ==
    LET has_current == \E l \in LevelNumbers :
                          /\ db.progress[<<u, l>>].exists
                          /\ is_unlocked_for_user(db, u, l)
                          /\ ~db.progress[<<u, l>>].is_completed
    IN  /\ db' = IF has_current THEN db ELSE dashboard_scan(db, u, 1)
        /\ last' = NoResponse
        /\ UNCHANGED <<reqs, probe>>

\* views.py 998-1016
level_detail_view(u, l) ==
    /\ db.levels[l].exists /\ db.levels[l].is_active
    /\ is_unlocked_for_user(db, u, l)
    /\ db' = progress_get_or_create(db, u, l)
    /\ last' = NoResponse
    /\ UNCHANGED <<reqs, probe>>

-----------------------------------------------------------------------------
(* Admin operations on levels and progress: level_admin_views.py *)

\* level_admin_views.py 245-271
reset_user_progress_rows(d, u, l) ==
    IF d.progress[<<u, l>>].exists
    THEN [d EXCEPT !.progress[<<u, l>>] = NewProgress]
    ELSE d

reset_user_progress(u, l) ==
    /\ db.levels[l].exists
    /\ db' = reset_user_progress_rows(db, u, l)
    /\ last' = [NoResponse EXCEPT !.op = "reset_user_progress", !.user = u, !.level = l,
                                  !.success = db.progress[<<u, l>>].exists]
    /\ UNCHANGED <<reqs, probe>>

\* level_admin_views.py 391-394 with the on_delete=CASCADE of models.py 82, 211, 277
delete_levels(d, ls) ==
    [d EXCEPT !.levels = [l \in LevelNumbers |-> IF l \in ls THEN NoLevel ELSE @[l]],
              !.level_puzzles = {s \in @ : s[1] \notin ls},
              !.puzzle_attempts = [us \in Users \X AllSlots |->
                                      IF us[2][1] \in ls THEN NoPuzzleAttempt ELSE @[us]],
              !.progress = [ul \in Users \X LevelNumbers |->
                               IF ul[2] \in ls THEN NoProgress ELSE @[ul]]]

\* level_admin_views.py 364-406
bulk_level_operations(action, ls) ==
    /\ ls # {}
    /\ \A l \in ls : db.levels[l].exists
    /\ db' = CASE action = "activate" ->
                    [db EXCEPT !.levels = [l \in LevelNumbers |->
                        IF l \in ls THEN [@[l] EXCEPT !.is_active = TRUE] ELSE @[l]]]
               [] action = "deactivate" ->
                    [db EXCEPT !.levels = [l \in LevelNumbers |->
                        IF l \in ls THEN [@[l] EXCEPT !.is_active = FALSE] ELSE @[l]]]
               [] OTHER -> delete_levels(db, ls)
    /\ last' = NoResponse
    /\ UNCHANGED <<reqs, probe>>

\* level_admin_views.py 36-61; level_number is unique (models.py 36)
create_level_view(level_number, puzzles_required) ==
    /\ ~db.levels[level_number].exists
    /\ db' = [db EXCEPT !.levels[level_number] = Level(puzzles_required)]
    /\ last' = NoResponse
    /\ UNCHANGED <<reqs, probe>>

-----------------------------------------------------------------------------
(* Specification of the progression system, requests handled one after another *)

Init ==
    /\ db = SeedStore
    /\ reqs = [r \in ReqIds |-> IdleRequest]
    /\ last = NoResponse
    /\ probe = NoProbe

Next ==
    \/ \E u \in Users, g \in Games : play_shape_game_view(u, g)
    \/ \E u \in Users, g \in Games, data \in SaveData : api_save_shape_game_state(u, g, data)
    \/ \E u \in Users, l \in LevelNumbers, g \in Games : level_puzzle_play_view(u, l, g)
    \/ \E u \in Users, l \in LevelNumbers, g \in Games : complete_level_puzzle(u, l, g)
    \/ \E u \in Users : dashboard_view(u)
    \/ \E u \in Users, l \in LevelNumbers : level_detail_view(u, l)
    \/ \E u \in Users, l \in LevelNumbers : reset_user_progress(u, l)
    \/ \E action \in {"activate", "deactivate", "delete"}, ls \in SUBSET LevelNumbers :
          bulk_level_operations(action, ls)
    \/ \E n \in LevelNumbers, k \in {1} : create_level_view(n, k)

Spec == Init /\ [][Next]_vars

-----------------------------------------------------------------------------
(* Specification of concurrent completion requests: the steps of several       *)
(* complete_level_puzzle requests interleave, as they do under a multi-worker  *)
(* server without transaction.atomic or select_for_update                       *)

\* a new request takes the first free worker: which worker serves it makes no difference
clp_start(r, u, l, g) ==
    /\ reqs[r].pc = "idle"
    /\ \A r2 \in ReqIds : r2 < r => reqs[r2].pc # "idle"
    /\ clp_accepts(db, u, l, g)
    /\ reqs' = [reqs EXCEPT ![r] = clp_begin(db, u, l, g)]
    /\ UNCHANGED <<db, last, probe>>

clp_advance(r) ==
    /\ reqs[r].pc # "idle"
    /\ LET s == clp_step(db, reqs[r])
       IN  /\ db' = s.db
           /\ IF s.req.pc = "done"
              THEN reqs' = [reqs EXCEPT ![r] = IdleRequest] /\ last' = clp_response(s.req)
              ELSE reqs' = [reqs EXCEPT ![r] = s.req] /\ last' = last
    /\ UNCHANGED probe

FinalizeData == {data \in SaveData : data.status = "completed"}

\* the level puzzle the concurrent requests are sent for
ConcSlots == {<<1, 1>>}

NextConc ==
    \/ \E u \in Users, g \in Games, data \in FinalizeData : api_save_shape_game_state(u, g, data)
    \/ \E u \in Users, l \in LevelNumbers, g \in Games : level_puzzle_play_view(u, l, g)
    \/ \E r \in ReqIds, u \in Users, s \in ConcSlots : clp_start(r, u, s[1], s[2])
    \/ \E r \in ReqIds : clp_advance(r)

SpecConc == Init /\ [][NextConc]_vars

-----------------------------------------------------------------------------
(* Specification of two completion requests for the puzzles of one level: every    *)
(* worker serves one request and keeps its response, so that the outcome of both   *)
(* requests can be read together                                                    *)

\* the level puzzles the two requests are sent for
PairSlots == {<<1, 1>>, <<1, 2>>}

\* one store access of request r; the finished request stays in its worker
clp_advance_once(r) ==
    /\ reqs[r].pc \notin {"idle", "done"}
    /\ LET s == clp_step(db, reqs[r])
       IN  /\ db' = s.db
           /\ reqs' = [reqs EXCEPT ![r] = s.req]
           /\ last' = IF s.req.pc = "done" THEN clp_response(s.req) ELSE last
    /\ UNCHANGED probe

NextPair ==
    \/ \E u \in Users, g \in Games, data \in FinalizeData : api_save_shape_game_state(u, g, data)
    \/ \E u \in Users, l \in LevelNumbers, g \in Games : level_puzzle_play_view(u, l, g)
    \/ \E r \in ReqIds, u \in Users, s \in PairSlots : clp_start(r, u, s[1], s[2])
    \/ \E r \in ReqIds : clp_advance_once(r)

SpecPair == Init /\ [][NextPair]_vars

-----------------------------------------------------------------------------
(* Specification of concurrent start, resume and save requests: get_or_create is a  *)
(* SELECT followed by an INSERT (no unique constraint on ShapeGameAttempt, models.py *)
(* 226-246), and attempt.save() writes the whole row of the instance loaded before   *)

StartHandlers == {"play", "save"}

\* views.py 1452: ShapeGame.objects.get(name='Reference Image Puzzle')
ReferenceGame == CHOOSE g \in Games : \A h \in Games : h <= g

\* views.py 709, 737: the request is authenticated and the game is active
start_request(r, u, g, handler) ==
    /\ reqs[r].pc = "idle"
    /\ \A r2 \in ReqIds : r2 < r => reqs[r2].pc # "idle"
    /\ db.shape_games[g].is_active
    /\ Len(db.attempts) + Cardinality({r2 \in ReqIds : reqs[r2].pc # "idle"}) < MaxAttempts
    /\ reqs' = [reqs EXCEPT ![r] = [IdleRequest EXCEPT !.pc = handler \o "_get",
                                                        !.user = u, !.game = g]]
    /\ UNCHANGED <<db, last, probe>>

start_response(q, handler, ok) ==
    [NoResponse EXCEPT !.op = IF handler = "play" THEN "play_shape_game_view"
                              ELSE "api_save_shape_game_state",
                       !.user = q.user, !.game = q.game, !.success = ok]

\* views.py 712-717, 740-745: the SELECT of get_or_create
get_attempt(r, handler) ==
    LET q   == reqs[r]
        ids == in_progress_ids(db, q.user, q.game)
    IN  /\ q.pc = handler \o "_get"
        /\ db' = db
        /\ IF Cardinality(ids) > 1
           THEN \* MultipleObjectsReturned
                /\ reqs' = [reqs EXCEPT ![r] = IdleRequest]
                /\ last' = start_response(q, handler, FALSE)
           ELSE IF ids = {}
           THEN /\ reqs' = [reqs EXCEPT ![r].pc = handler \o "_create"]
                /\ last' = last
           ELSE LET i == CHOOSE i \in ids : TRUE
                IN  IF handler = "play"
                    THEN /\ reqs' = [reqs EXCEPT ![r] = IdleRequest]
                         /\ last' = start_response(q, handler, TRUE)
                    ELSE /\ reqs' = [reqs EXCEPT ![r].pc = "save_write",
                                                  ![r].attempt_id = i,
                                                  ![r].instance = db.attempts[i]]
                         /\ last' = last
        /\ UNCHANGED probe

\* views.py 712-717, 740-745: the INSERT of get_or_create
create_attempt(r, handler) ==
    LET q == reqs[r]
    IN  /\ q.pc = handler \o "_create"
        /\ db' = [db EXCEPT !.attempts = Append(@, new_attempt(q.user, q.game))]
        /\ IF handler = "play"
           THEN /\ reqs' = [reqs EXCEPT ![r] = IdleRequest]
                /\ last' = start_response(q, handler, TRUE)
           ELSE /\ reqs' = [reqs EXCEPT ![r].pc = "save_write",
                                         ![r].attempt_id = Len(db.attempts) + 1,
                                         ![r].instance = new_attempt(q.user, q.game)]
                /\ last' = last
        /\ UNCHANGED probe

\* views.py 747-777: the fields set on the instance, attempt.save() and the response
write_attempt(r, data) ==
    LET q     == reqs[r]
        saved == save_state_fields(q.instance, db.shape_games[q.game], data)
    IN  /\ q.pc = "save_write"
        /\ db' = [db EXCEPT !.attempts[q.attempt_id] = saved]
        /\ reqs' = [reqs EXCEPT ![r] = IdleRequest]
        /\ last' = [start_response(q, "save", TRUE) EXCEPT
                        !.finalize = data.status = "completed",
                        !.score = saved.score, !.accuracy = saved.accuracy]
        /\ UNCHANGED probe

\* views.py 1445-1460: a new attempt of the reference puzzle on every request
reference_puzzle_view(u) ==
    /\ Len(db.attempts) + Cardinality({r2 \in ReqIds : reqs[r2].pc # "idle"}) < MaxAttempts
    /\ db' = [db EXCEPT !.attempts = Append(@, new_attempt(u, ReferenceGame))]
    /\ last' = NoResponse
    /\ UNCHANGED <<reqs, probe>>

NextStart ==
    \/ \E r \in ReqIds, u \in Users, g \in Games, handler \in StartHandlers :
          start_request(r, u, g, handler)
    \/ \E r \in ReqIds, handler \in StartHandlers : get_attempt(r, handler)
    \/ \E r \in ReqIds, handler \in StartHandlers : create_attempt(r, handler)
    \/ \E r \in ReqIds, data \in SaveData : write_attempt(r, data)
    \/ \E u \in Users : reference_puzzle_view(u)

SpecStart == Init /\ [][NextStart]_vars

-----------------------------------------------------------------------------
(* Specification of the unlock cascade: a store with one level past the next, so *)
(* that a completion has a level beyond N+1 it could reach                        *)

CascadeLevels == 1..(MaxLevel + 1)

\* level 1 asks for one of its two puzzles; level 2 is created by the admin later;
\* the levels after it exist and have no puzzles yet
CascadeStore ==
    [SeedStore EXCEPT
        !.levels = [l \in CascadeLevels |->
                       IF l = 1 THEN Level(1) ELSE IF l = 2 THEN NoLevel ELSE Level(1)],
        !.level_puzzles = {<<1, 1>>, <<1, 2>>},
        !.progress = [ul \in Users \X CascadeLevels |-> NoProgress]]

InitCascade ==
    /\ db = CascadeStore
    /\ reqs = [r \in ReqIds |-> IdleRequest]
    /\ last = NoResponse
    /\ probe = NoProbe

NextCascade ==
    \/ \E u \in Users, g \in Games, data \in FinalizeData : api_save_shape_game_state(u, g, data)
    \/ \E u \in Users, l \in CascadeLevels, g \in Games : level_puzzle_play_view(u, l, g)
    \/ \E u \in Users, l \in CascadeLevels, g \in Games : complete_level_puzzle(u, l, g)
    \/ \E u \in Users, l \in CascadeLevels : level_detail_view(u, l)
    \/ \E n \in CascadeLevels, k \in {1} : create_level_view(n, k)

SpecCascade == InitCascade /\ [][NextCascade]_vars

-----------------------------------------------------------------------------
(* Specification of the attempts with their time fields: start_time, end_time and *)
(* time_taken_seconds of models.py 233-243, a clock, and the admin's edit of a     *)
(* puzzle that has attempts                                                        *)

\* models.py 233-234, 243: the time fields of a row inserted at now
times_of_new_attempt(now) == [start_time |-> now, end_time |-> None, time_taken_seconds |-> 0]

\* get_or_create with start_time = auto_now_add on the row it inserts
timed_get_or_create(d, u, g, now) ==
    LET got == attempt_get_or_create(d, u, g)
    IN  IF Len(got.attempts) > Len(d.attempts)
        THEN [got EXCEPT !.attempts[Len(got.attempts)] = @ @@ times_of_new_attempt(now)]
        ELSE got

\* views.py 758-761: end_time and int((end_time - start_time).total_seconds())
finalize_times(attempt, data, now) ==
    IF data.status = "completed"
    THEN [attempt EXCEPT !.end_time = now,
                         !.time_taken_seconds = (now - attempt.start_time) \div TicksPerSecond]
    ELSE attempt

\* views.py 706-728
timed_play_shape_game_view(u, g) ==
    /\ db.shape_games[g].is_active
    /\ ~MultipleObjectsReturned(db, u, g)
    /\ room_for_attempt(db, u, g)
    /\ db' = timed_get_or_create(db, u, g, probe.now)
    /\ last' = NoResponse
    /\ UNCHANGED <<reqs, probe>>

\* views.py 732-783
timed_save_shape_game_state(u, g, data) ==
    LET got   == timed_get_or_create(db, u, g, probe.now)
        i     == attempt_got(got, u, g)
        saved == save_state_fields(got.attempts[i], got.shape_games[g], data)
    IN  /\ db.shape_games[g].is_active
        /\ ~MultipleObjectsReturned(db, u, g)
        /\ room_for_attempt(db, u, g)
        /\ db' = [got EXCEPT !.attempts[i] = finalize_times(saved, data, probe.now)]
        /\ last' = save_response(db, u, g, data)
        /\ UNCHANGED <<reqs, probe>>

\* points_per_correct values of the admin's form
EditPoints == {10, 30}

\* views.py 646-664: a valid ShapeGameForm that changes points_per_correct
shape_game_edit_points(g, points_per_correct) ==
    /\ db.shape_games[g].points_per_correct # points_per_correct
    /\ db' = [db EXCEPT !.shape_games[g].points_per_correct = points_per_correct]
    /\ last' = [NoResponse EXCEPT !.op = "shape_game_edit_view", !.game = g, !.success = TRUE]
    /\ UNCHANGED <<reqs, probe>>

\* time passes between two requests
tick ==
    /\ probe.now < MaxTime
    /\ probe' = [probe EXCEPT !.now = @ + 1]
    /\ UNCHANGED <<db, reqs, last>>

NextTimed ==
    \/ \E u \in Users, g \in Games : timed_play_shape_game_view(u, g)
    \/ \E u \in Users, g \in Games, data \in SaveData : timed_save_shape_game_state(u, g, data)
    \/ \E g \in Games, points \in EditPoints : shape_game_edit_points(g, points)
    \/ tick

SpecTimed == Init /\ [][NextTimed]_vars

-----------------------------------------------------------------------------
(* Specification of the legacy Sudoku sessions: GameSession (models.py 395-448), *)
(* api_save_game_state and check_achievements (views.py 313-354, 403-439)         *)

Difficulties == {"easy", "expert"}

\* models.py 399-407: a session the player started at start_time; hints_used and
\* mistakes_made are written by the admin site only
GameSession(u, difficulty, start_time, hints_used, mistakes_made) ==
    [user |-> u, difficulty |-> difficulty, current_state |-> 0, status |-> "in_progress",
     start_time |-> start_time, end_time |-> None, score |-> 0,
     hints_used |-> hints_used, mistakes_made |-> mistakes_made]

\* the sessions a store can hold when the requests begin: started just before or ten
\* minutes before the first reading of the clock
SeedSessions ==
    {GameSession(u, dif, start, hints, mistakes) :
        u \in Users, dif \in Difficulties, start \in {0, 0 - 600 * TicksPerSecond},
        hints \in {0, 1}, mistakes \in {0, 1}}

LegacyStore(gs) ==
    SeedStore @@ [game_sessions |-> <<gs>>,
                  games_played  |-> [u \in Users |-> 0],
                  games_won     |-> [u \in Users |-> 0]]

InitLegacy ==
    /\ \E gs \in SeedSessions : db = LegacyStore(gs)
    /\ reqs = [r \in ReqIds |-> IdleRequest]
    /\ last = NoResponse
    /\ probe = NoProbe

\* models.py 416-420: end_time - start_time in ticks, None without an end_time
duration(gs) == IF gs.end_time # None THEN gs.end_time - gs.start_time ELSE None

\* timedelta.seconds: the whole seconds of the part of the duration below one day
duration_seconds(gs) == (duration(gs) \div TicksPerSecond) % 86400

\* models.py 422-448
session_calculate_score(gs) ==
    IF gs.status # "completed" THEN 0
    ELSE LET base_score == IF gs.difficulty = "easy" THEN 100 ELSE 500
             penalty    == gs.hints_used * 10 + gs.mistakes_made * 5
             bonus      == 100 - duration_seconds(gs) \div 60
             time_bonus == IF duration(gs) # None /\ duration(gs) # 0
                           THEN (IF bonus > 0 THEN bonus ELSE 0) ELSE 0
             final      == base_score + time_bonus - penalty
         IN  IF final > 0 THEN final ELSE 0

\* views.py 403-439: each branch calls Achievement.objects.get_or_create(user=...,
\* achievement_type=...); Achievement (models.py 468-489) has neither field, so the
\* call raises FieldError
check_achievements_raises(games_won, gs) ==
    \/ games_won = 1
    \/ duration(gs) # None /\ duration(gs) # 0 /\ duration_seconds(gs) < 600
    \/ gs.mistakes_made = 0 /\ gs.hints_used = 0

legacy_response(u, gs, ok) ==
    [NoResponse EXCEPT !.op = "api_save_game_state", !.user = u,
                       !.success = ok, !.score = IF ok THEN gs.score ELSE 0]

\* views.py 313-354
api_save_game_state(u, session_id, new_state, is_completed) ==
    LET gs       == db.game_sessions[session_id]
        stated   == IF new_state # 0 THEN [gs EXCEPT !.current_state = new_state] ELSE gs
        ended    == [stated EXCEPT !.status = "completed", !.end_time = probe.now]
        finished == [ended EXCEPT !.score = session_calculate_score(ended)]
        stats    == [db EXCEPT !.total_score[u] = @ + finished.score,
                               !.games_played[u] = @ + 1,
                               !.games_won[u] = @ + 1]
    IN  /\ session_id \in 1..Len(db.game_sessions)
        /\ gs.user = u
        /\ is_completed => db.games_played[u] <= MaxRequests
        /\ IF ~is_completed
           THEN /\ db' = [db EXCEPT !.game_sessions[session_id] = stated]
                /\ last' = legacy_response(u, stated, TRUE)
           ELSE IF check_achievements_raises(stats.games_won[u], finished)
                THEN /\ db' = stats
                     /\ last' = legacy_response(u, finished, FALSE)
                ELSE /\ db' = [stats EXCEPT !.game_sessions[session_id] = finished]
                     /\ last' = legacy_response(u, finished, TRUE)
        /\ UNCHANGED <<reqs, probe>>

NextLegacy ==
    \/ \E u \in Users, new_state \in {0, 1}, is_completed \in BOOLEAN :
          api_save_game_state(u, 1, new_state, is_completed)
    \/ tick

SpecLegacy == InitLegacy /\ [][NextLegacy]_vars

-----------------------------------------------------------------------------
(* Specification of the authoring handlers: grid templates and puzzles created and   *)
(* edited by the admins (views.py 527-661, 1275-1416, forms.py 73-270)                *)

\* grid_size values of the requests: 2 is below every accepted size
AuthorSizes == {2, 3}

\* grid_data of the requests: a grid with one '?', one with two, one without any and one
\* with a row and a cell missing
AuthorGrids ==
    {<<<<"?", "1", "2">>, <<"2", "1", "1">>, <<"1", "2", "2">>>>,
     <<<<"?", "?", "2">>, <<"2", "1", "1">>, <<"1", "2", "2">>>>,
     <<<<"1", "1", "2">>, <<"2", "1", "1">>, <<"1", "2", "2">>>>,
     <<<<"?", "1">>, <<"2", "1", "1">>>>}

\* solution_data of the requests: empty, for the first '?', with a second shape, for both
AuthorSolutions ==
    {EmptyDict,
     [k \in {"0,0"} |-> 1],
     [k \in {"0,0"} |-> MaxShapeId],
     [k \in {"0,0", "0,1"} |-> 1]}

\* available_shapes / shapes_used of the requests
AuthorShapes == {{}, {1}, ShapeIds}

\* forms.py 150-155
clean_grid_size(grid_size) == ~(grid_size < 3 \/ grid_size > 15)

\* forms.py 106-148 (the cells of the requests are strings, which line 135 lets pass)
clean_grid_data(grid_size, grid_data) ==
    /\ Len(grid_data) = grid_size
    /\ \A i \in 1..Len(grid_data) : Len(grid_data[i]) = grid_size
    /\ question_cells(grid_data) # {}

\* forms.py 73-155: GridTemplateForm.is_valid()
grid_template_form_valid(grid_size, grid_data) ==
    clean_grid_size(grid_size) /\ clean_grid_data(grid_size, grid_data)

\* forms.py 215-247; an empty object fails the required JSON field before
clean_solution_data(solution_data, grid_data) ==
    /\ solution_data # EmptyDict
    /\ question_cells(grid_data) \subseteq DOMAIN solution_data

\* forms.py 249-270: a required selection of shapes that holds every shape of the solution
clean_shapes(solution_data, available_shapes) ==
    /\ available_shapes # {}
    /\ \A k \in DOMAIN solution_data : solution_data[k] \in available_shapes

author_response(op, ok) == [NoResponse EXCEPT !.op = op, !.success = ok]

\* views.py 527-545
template_create_view(grid_size, grid_data) ==
    /\ Len(db.grid_templates) < MaxTemplates
    /\ IF grid_template_form_valid(grid_size, grid_data)
       THEN /\ db' = [db EXCEPT !.grid_templates =
                          Append(@, [grid_size |-> grid_size, grid_data |-> grid_data])]
            /\ last' = author_response("template_create_view", TRUE)
       ELSE /\ db' = db
            /\ last' = author_response("template_create_view", FALSE)
    /\ UNCHANGED <<reqs, probe>>

\* views.py 547-604: clean_grid_data of the builder form (forms.py 316-358) returns the
\* parsed object (or the empty string), and json.loads of it at line 556 raises
template_builder_view ==
    /\ db' = db
    /\ last' = author_response("template_builder_view", FALSE)
    /\ UNCHANGED <<reqs, probe>>

\* views.py 606-625
template_edit_view(t, grid_size, grid_data) ==
    /\ t \in 1..Len(db.grid_templates)
    /\ IF grid_template_form_valid(grid_size, grid_data)
       THEN /\ db' = [db EXCEPT !.grid_templates[t] =
                          [grid_size |-> grid_size, grid_data |-> grid_data]]
            /\ last' = author_response("template_edit_view", TRUE)
       ELSE /\ db' = db
            /\ last' = author_response("template_edit_view", FALSE)
    /\ UNCHANGED <<reqs, probe>>

\* views.py 645-661
shape_game_edit_view(g, t, available_shapes, solution_data) ==
    /\ g \in 1..Len(db.authored_games)
    /\ t \in 1..Len(db.grid_templates)
    /\ IF /\ clean_solution_data(solution_data, db.grid_templates[t].grid_data)
          /\ clean_shapes(solution_data, available_shapes)
       THEN /\ db' = [db EXCEPT !.authored_games[g] =
                          [grid_template |-> t, solution_data |-> solution_data,
                           available_shapes |-> available_shapes]]
            /\ last' = author_response("shape_game_edit_view", TRUE)
       ELSE /\ db' = db
            /\ last' = author_response("shape_game_edit_view", FALSE)
    /\ UNCHANGED <<reqs, probe>>

\* views.py 1389-1390: the number after the highest active level, or 1
next_level_number_of(d) ==
    LET active == {l \in LevelNumbers : d.levels[l].exists /\ d.levels[l].is_active}
    IN  IF active = {} THEN 1 ELSE 1 + CHOOSE l \in active : \A m \in active : m <= l

\* views.py 1275-1416: the template, the puzzle, the level got or created for it and the
\* level puzzle; the authored puzzle i is numbered after the seeded ones
create_shape_puzzle_api(grid_size, grid_data, solution_data, shapes_used) ==
    LET n == next_level_number_of(db)
        t == Len(db.grid_templates) + 1
        g == Len(db.authored_games) + 1
    IN  /\ Len(db.grid_templates) < MaxTemplates
        /\ n \in LevelNumbers
        /\ IF grid_size \notin {3, 4, 5}
           THEN /\ db' = db
                /\ last' = author_response("create_shape_puzzle_api", FALSE)
           ELSE /\ db' = [db EXCEPT
                             !.grid_templates =
                                Append(@, [grid_size |-> grid_size, grid_data |-> grid_data]),
                             !.authored_games =
                                Append(@, [grid_template |-> t, solution_data |-> solution_data,
                                           available_shapes |-> shapes_used]),
                             !.levels[n] = IF @.exists THEN @ ELSE Level(1),
                             !.level_puzzles = @ \cup {<<n, Cardinality(Games) + g>>}]
                /\ last' = author_response("create_shape_puzzle_api", TRUE)
        /\ UNCHANGED <<reqs, probe>>

\* a store without levels: the one before the first level is created, and the one
\* bulk_level_operations leaves when every level is deleted
InitAuthor ==
    /\ db = delete_levels(SeedStore, LevelNumbers)
    /\ reqs = [r \in ReqIds |-> IdleRequest]
    /\ last = NoResponse
    /\ probe = NoProbe

NextAuthor ==
    \/ \E grid_size \in AuthorSizes, grid_data \in AuthorGrids :
          template_create_view(grid_size, grid_data)
    \/ template_builder_view
    \/ \E t \in 1..MaxTemplates, grid_size \in AuthorSizes, grid_data \in AuthorGrids :
          template_edit_view(t, grid_size, grid_data)
    \/ \E g \in 1..MaxTemplates, t \in 1..MaxTemplates,
          available_shapes \in AuthorShapes, solution_data \in AuthorSolutions :
          shape_game_edit_view(g, t, available_shapes, solution_data)
    \/ \E grid_size \in AuthorSizes, grid_data \in AuthorGrids,
          solution_data \in AuthorSolutions, shapes_used \in AuthorShapes :
          create_shape_puzzle_api(grid_size, grid_data, solution_data, shapes_used)

SpecAuthor == InitAuthor /\ [][NextAuthor]_vars

-----------------------------------------------------------------------------
(* Specification of the validator as a function of its inputs *)

VGrids == {<<<<"1", "2">>, <<"2", "1">>>>,
           <<<<"?", "1">>, <<"2", "1">>>>,
           <<<<"?", "?">>, <<"2", "1">>>>}

VPoints == {-3, 10}

VPenalties == {-2, 5}

\* the score field of the request body
VScores == {-5, 25}

VGames == [grid_data : VGrids, solution_data : DictsOver(Keys, ShapeIds),
           points_per_correct : VPoints, penalty_per_wrong : VPenalties, is_active : {TRUE}]

VPlacements == DictsOver(Keys, PlacementValues)

\* the request is drawn here; the handlers below answer it
InitV ==
    /\ db = SeedStore
    /\ reqs = [r \in ReqIds |-> IdleRequest]
    /\ last = NoResponse
    /\ \E g \in VGames, p \in VPlacements :
          probe = [NoProbe EXCEPT !.game = g, !.placements = p]

\* views.py 785-807
api_validate_shape_placement ==
    /\ probe.status = "none"
    /\ probe' = [probe EXCEPT !.status = "validate",
                              !.validation = validate_shape_placement(probe.game, probe.placements)]
    /\ UNCHANGED <<db, reqs, last>>

\* views.py 747-770 on an attempt just created for the game
save_new_attempt(score, status) ==
    /\ probe.status = "none"
    /\ probe' = [probe EXCEPT
                    !.status = status,
                    !.validation = validate_shape_placement(probe.game, probe.placements),
                    !.attempt = save_state_fields(new_attempt("u1", 1), probe.game,
                                   [current_state |-> probe.placements, score |-> score,
                                    status |-> status])]
    /\ UNCHANGED <<db, reqs, last>>

NextV ==
    \/ api_validate_shape_placement
    \/ \E score \in VScores, status \in {"in_progress", "completed"} :
          save_new_attempt(score, status)

SpecV == InitV /\ [][NextV]_vars

-----------------------------------------------------------------------------
(* Properties *)

Answered == probe.status # "none"

\* number of placed coordinates that the solution holds with an equal shape id
matching_count(solution, placements) ==
    Cardinality({p \in DOMAIN placements :
                    p \in DOMAIN solution /\ solution[p] = placements[p].shapeId})

\* C8: for every solution, placement mapping and points_per_correct / penalty_per_wrong
\* the validator's final_score is >= 0, and so is the score stored on an attempt at finalize
C8_ScoreNeverNegative ==
    Answered =>
        /\ probe.validation.final_score >= 0
        /\ probe.status = "completed" =>
              /\ probe.attempt.score >= 0
              /\ calculate_score(probe.attempt, probe.game) >= 0

\* an attempt finalized with nothing correct and a penalty that outweighs the points
C8_Witness ==
    /\ probe.status = "completed"
    /\ ~probe.validation.error
    /\ probe.validation.correct_count * probe.game.points_per_correct
         - probe.validation.incorrect_count * probe.game.penalty_per_wrong < 0
    /\ probe.attempt.score = 0

\* C9: the validator's accuracy lies in [0, 100] and equals 100 * correct_count /
\* total_blank_count (to two decimals), or 0 when the grid has no blank cell
C9_AccuracyInRange ==
    Answered =>
        LET v == probe.validation
            blanks == total_questions_of(probe.game.grid_data)
        IN  /\ v.accuracy >= 0 /\ v.accuracy <= 10000
            /\ IF blanks = 0 \/ v.error THEN v.accuracy = 0
               ELSE /\ 2 * (v.accuracy * blanks - 10000 * v.correct_count) <= blanks
                    /\ 2 * (10000 * v.correct_count - v.accuracy * blanks) <= blanks

\* C10: correct_count is the number of placed coordinates present in the solution with an
\* equal shape id, incorrect_count the number of all other placed coordinates
C10_CountsFollowSolution ==
    (Answered /\ ~probe.validation.error) =>
        /\ probe.validation.correct_count =
              matching_count(probe.game.solution_data, probe.placements)
        /\ probe.validation.incorrect_count =
              Cardinality(DOMAIN probe.placements)
                 - matching_count(probe.game.solution_data, probe.placements)

\* the step handles a finalize request of u for g (or changes nothing)
FinalizeStep(u, g) ==
    /\ last'.op = "api_save_shape_game_state"
    /\ last'.user = u /\ last'.game = g /\ last'.finalize

\* C1: a finalize request for a (user, puzzle) whose attempt is already completed creates
\* no attempt, leaves the stored results as they are and returns the stored score and accuracy
C1_FinalizeCompletedIsNoOp ==
    [][\A u \in Users, g \in Games :
          (FinalizeStep(u, g) /\ completed_ids(db, u, g) # {} /\ in_progress_ids(db, u, g) = {})
             => /\ db'.attempts = db.attempts
                /\ \E i \in completed_ids(db, u, g) :
                      /\ last'.score = db.attempts[i].score
                      /\ last'.accuracy = db.attempts[i].accuracy]_vars

\* C2: over requests handled one after another, a level puzzle increments puzzles_completed
\* at most once and adds its score to the level's and the user's total_score at most once
C2_SlotCreditedAtMostOnce ==
    \A us \in Users \X AllSlots :
        /\ db.credits.puzzles_completed[us] <= 1
        /\ db.credits.level_score[us] <= 1
        /\ db.credits.user_score[us] <= 1

\* a completion request for a level puzzle that had been credited before
C2_Witness ==
    /\ last.op = "complete_level_puzzle" /\ last.success /\ ~last.credited
    /\ db.credits.puzzles_completed[<<last.user, <<last.level, last.game>>>>] = 1
    /\ db.credits.user_score[<<last.user, <<last.level, last.game>>>>] = 1

Quiescent == \A r \in ReqIds : reqs[r].pc = "idle"

\* C3: when completion requests for the same user and level puzzle interleave, the puzzle
\* is counted and its score is added exactly once
C3_ConcurrentCompletionCreditsOnce ==
    Quiescent =>
        \A us \in Users \X ConcSlots :
            LET once == IF db.puzzle_attempts[us].is_completed THEN 1 ELSE 0
            IN  /\ db.credits.puzzles_completed[us] = once
                /\ db.credits.level_score[us] = once
                /\ db.credits.user_score[us] = once

BothRows(ul) == db.progress[ul].exists /\ db'.progress[ul].exists

ResetStep(ul) ==
    last'.op = "reset_user_progress" /\ last'.user = ul[1] /\ last'.level = ul[2]

\* C4 as claimed: puzzles_completed of a row never decreases, whatever the operation
C4_PuzzlesCompletedNeverDecreases ==
    [][\A ul \in Users \X LevelNumbers :
          BothRows(ul) =>
             db'.progress[ul].puzzles_completed >= db.progress[ul].puzzles_completed]_vars

\* C4 amended: puzzles_completed of a row decreases in no step but the admin's
\* reset_user_progress of that row, which sets it to 0
C4_DecreasesOnlyByReset ==
    [][\A ul \in Users \X LevelNumbers :
          (BothRows(ul) /\ db'.progress[ul].puzzles_completed < db.progress[ul].puzzles_completed)
             => ResetStep(ul) /\ db'.progress[ul].puzzles_completed = 0]_vars

\* a row reset after one of its level's puzzles had been counted
C4_Witness ==
    \E u \in Users, s \in AllSlots :
        /\ last.op = "reset_user_progress" /\ last.user = u /\ last.level = s[1]
        /\ db.credits.puzzles_completed[<<u, s>>] = 1
        /\ db.progress[<<u, s[1]>>].exists
        /\ db.progress[<<u, s[1]>>].puzzles_completed = 0

\* C5 as claimed: once is_completed is true it stays true, whatever operations follow
C5_IsCompletedNeverReverts ==
    [][\A ul \in Users \X LevelNumbers :
          (BothRows(ul) /\ db.progress[ul].is_completed) => db'.progress[ul].is_completed]_vars

\* C5 amended: is_completed goes from true to false in no step but the admin's
\* reset_user_progress of that row
C5_RevertsOnlyByReset ==
    [][\A ul \in Users \X LevelNumbers :
          (BothRows(ul) /\ db.progress[ul].is_completed /\ ~db'.progress[ul].is_completed)
             => ResetStep(ul)]_vars

\* a completed level with later requests handled: the next request was a replay
C5_Witness ==
    /\ last.op = "complete_level_puzzle" /\ last.success /\ ~last.credited
    /\ db.progress[<<last.user, last.level>>].exists
    /\ db.progress[<<last.user, last.level>>].is_completed

PreviousCompleted(u, l) ==
    db.progress[<<u, l - 1>>].exists /\ db.progress[<<u, l - 1>>].is_completed

\* C6 as claimed: level 1 is unlocked; level N > 1 is unlocked iff the user's row for the
\* level numbered N - 1 exists with is_completed
C6_UnlockedIffPreviousCompleted ==
    \A u \in Users, l \in LevelNumbers :
        db.levels[l].exists =>
            (is_unlocked_for_user(db, u, l) <=> (l = 1 \/ PreviousCompleted(u, l)))

\* C6 amended: level N > 1 is unlocked iff there is no level numbered N - 1 or the user's
\* row for it exists with is_completed
C6_UnlockedIffPreviousCompletedOrMissing ==
    \A u \in Users, l \in LevelNumbers :
        db.levels[l].exists =>
            (is_unlocked_for_user(db, u, l)
                <=> (l = 1 \/ ~db.levels[l - 1].exists \/ PreviousCompleted(u, l)))

\* level 2 unlocked by the completion of level 1
C6_Witness ==
    \E u \in Users :
        /\ db.levels[1].exists /\ db.levels[2].exists
        /\ db.progress[<<u, 1>>].is_completed
        /\ db.credits.puzzles_completed[<<u, <<1, 1>>>>] = 1
        /\ is_unlocked_for_user(db, u, 2)

\* C7: for every (user, achievement) at most one UserAchievement row is ever created and
\* the reward is added to the user's total_score at most once, however often the check runs
C7_AchievementGrantedAtMostOnce ==
    \A ua \in Users \X AchIds :
        /\ db.user_achievements[ua] <= 1
        /\ db.credits.reward[ua] <= 1

\* a pass that awarded nothing to a user who holds an achievement that still qualifies
C7_Witness ==
    /\ last.op = "complete_level_puzzle" /\ last.success /\ last.awarded = 0
    /\ db.user_achievements[<<last.user, 1>>] = 1
    /\ db.credits.reward[<<last.user, 1>>] = 1
    /\ completed_levels(db, last.user) >= Achievements[1].requirement_value

\* C11: the validator (when it raises nothing) reports is_complete = true if and only if
\* every '?' coordinate of the grid has a placement
C11_IsCompleteIffAllBlanksPlaced ==
    (Answered /\ ~probe.validation.error) =>
        (probe.validation.is_complete
            <=> question_cells(probe.game.grid_data) \subseteq DOMAIN probe.placements)

\* the level puzzles of level l the user has completed
completed_slots(d, u, l) ==
    {s \in AllSlots : /\ s[1] = l
                      /\ d.puzzle_attempts[<<u, s>>].exists
                      /\ d.puzzle_attempts[<<u, s>>].is_completed}

RECURSIVE SumEarned(_, _, _)
SumEarned(d, u, S) ==
    IF S = {} THEN 0
    ELSE LET s == CHOOSE x \in S : TRUE
         IN  d.puzzle_attempts[<<u, s>>].score_earned + SumEarned(d, u, S \ {s})

\* the row of (u, l) tells what the user's completions of the level's puzzles so far
\* amount to: nothing but completions has written it
CompletionsOnly(d, u, l) ==
    LET row == d.progress[<<u, l>>]
        j   == Cardinality(completed_slots(d, u, l))
    IN  IF row.exists
        THEN /\ row.puzzles_completed = j
             /\ row.total_score = SumEarned(d, u, completed_slots(d, u, l))
             /\ row.is_completed <=> j >= d.levels[l].puzzles_required
        ELSE j = 0

\* the step handles a completion request that ran the body of complete_attempt
CreditStep(u, l, g) ==
    /\ last'.op = "complete_level_puzzle" /\ last'.credited
    /\ last'.user = u /\ last'.level = l /\ last'.game = g
    /\ db' # db

\* what the j-th completion of a level requiring k puzzles leaves in the row of (u, l)
AfterCompletion(u, l) ==
    LET row == db'.progress[<<u, l>>]
        j   == Cardinality(completed_slots(db', u, l))
        k   == db.levels[l].puzzles_required
    IN  /\ row.exists
        /\ row.puzzles_completed = j
        /\ row.total_score = SumEarned(db', u, completed_slots(db', u, l))
        /\ row.is_completed <=> j >= k

NextLevelExists(l) == l + 1 \in LevelNumbers /\ db.levels[l + 1].exists

\* C12 as claimed: after the j-th of k completions puzzles_completed = j, is_completed is
\* j >= k, total_score is the sum of the credited scores, and after the k-th the row of
\* (user, level N+1) exists
C12_KthCompletionCompletesAndUnlocks ==
    [][\A u \in Users, l \in LevelNumbers, g \in Games :
          (CreditStep(u, l, g) /\ CompletionsOnly(db, u, l))
             => /\ AfterCompletion(u, l)
                /\ (db'.progress[<<u, l>>].is_completed /\ NextLevelExists(l))
                      => db'.progress[<<u, l + 1>>].exists]_vars

\* C12 amended: the same, the row of (user, level N+1) existing after the k-th completion
\* when the level numbered N+1 is active
C12_KthCompletionUnlocksActiveNext ==
    [][\A u \in Users, l \in LevelNumbers, g \in Games :
          (CreditStep(u, l, g) /\ CompletionsOnly(db, u, l))
             => /\ AfterCompletion(u, l)
                /\ (db'.progress[<<u, l>>].is_completed /\ NextLevelExists(l)
                       /\ db.levels[l + 1].is_active)
                      => db'.progress[<<u, l + 1>>].exists]_vars

\* the second of the two completions level 1 requires, with scores 10 and 20
C12_Witness ==
    /\ last.op = "complete_level_puzzle" /\ last.credited /\ last.level = 1
    /\ Cardinality(completed_slots(db, last.user, 1)) = 2
    /\ db.progress[<<last.user, 1>>].puzzles_completed = 2
    /\ db.progress[<<last.user, 1>>].is_completed
    /\ db.progress[<<last.user, 1>>].total_score = 30
    /\ db.levels[2].exists /\ db.levels[2].is_active
    /\ db.progress[<<last.user, 2>>].exists

\* models.py 16-19: the statuses no transition leaves
Terminal == {"completed", "abandoned"}

\* C13: once the status of a ShapeGameAttempt is completed or abandoned, no later request
\* (state save, finalize, play or resume, level completion, admin operation) changes it
C13_TerminalStatusStays ==
    [][\A i \in 1..Len(db.attempts) :
          db.attempts[i].status \in Terminal
             => /\ i <= Len(db'.attempts)
                /\ db'.attempts[i].status = db.attempts[i].status]_vars

\* a state save handled for a puzzle of which the user has a completed attempt
C13_Witness ==
    /\ last.op = "api_save_shape_game_state" /\ last.success
    /\ Len(db.attempts) = 2
    /\ db.attempts[1].status = "completed"
    /\ db.attempts[2].user = db.attempts[1].user
    /\ db.attempts[2].shape_game = db.attempts[1].shape_game
    /\ last.user = db.attempts[2].user /\ last.game = db.attempts[2].shape_game

\* C14: in every reachable state, concurrent start, resume and save requests included,
\* at most one ShapeGameAttempt with status in_progress exists per (user, puzzle)
C14_OneInProgressAttempt ==
    \A u \in Users, g \in Games : Cardinality(in_progress_ids(db, u, g)) <= 1

\* C15: whenever is_completed of a LevelProgress row turns from false to true, the row's
\* puzzles_completed is at least the level's puzzles_required at that moment
C15_CompletedOnlyAtThreshold ==
    [][\A ul \in Users \X LevelNumbers :
          (~db.progress[ul].is_completed /\ db'.progress[ul].exists /\ db'.progress[ul].is_completed)
             => /\ db'.levels[ul[2]].exists
                /\ db'.progress[ul].puzzles_completed >= db'.levels[ul[2]].puzzles_required]_vars

\* a completion request has just turned a level requiring two puzzles to completed
C15_Witness ==
    /\ last.op = "complete_level_puzzle" /\ last.credited
    /\ db.levels[last.level].exists /\ db.levels[last.level].puzzles_required = 2
    /\ db.progress[<<last.user, last.level>>].is_completed
    /\ db.progress[<<last.user, last.level>>].puzzles_completed = 2
    /\ db.credits.puzzles_completed[<<last.user, <<last.level, last.game>>>>] = 1

\* the step ends the award loop of request r (views.py 1225-1230)
AwardStep(r) == reqs[r].pc = "award" /\ reqs'[r].pc = "idle"

\* C16: when achievement evaluations for the same user interleave, the request that ends
\* its award loop does not fail, and every achievement it found qualifying has exactly one
\* UserAchievement, its reward added exactly once
C16_ConcurrentEvaluationGrantsOnce ==
    [][\A r \in ReqIds :
          AwardStep(r)
             => /\ last'.success
                /\ \A a \in SeqRange(reqs[r].to_award) :
                      /\ db'.user_achievements[<<reqs[r].user, a>>] = 1
                      /\ db'.credits.reward[<<reqs[r].user, a>>] = 1]_vars

\* views.py 1192-1222: the achievement qualifies for the metrics a pass has read
Qualifies(a, levels_metric, puzzles_metric, score_metric) ==
    /\ Achievements[a].is_active
    /\ \/ Achievements[a].requirement_type = "levels_completed"
          /\ Achievements[a].requirement_value <= levels_metric
       \/ Achievements[a].requirement_type = "puzzles_solved"
          /\ Achievements[a].requirement_value <= puzzles_metric
       \/ Achievements[a].requirement_type = "score_reached"
          /\ Achievements[a].requirement_value <= score_metric

\* C17: after one check_user_achievements pass every active achievement whose
\* requirement_value is <= the metric that pass read (the levels and puzzles counted after
\* the completion, the total_score of the user instance of the request) has a
\* UserAchievement of the user, however many qualify at once
C17_AllQualifyingGranted ==
    [][\A u \in Users :
          (last'.op = "complete_level_puzzle" /\ last'.user = u /\ last'.success)
             => \A a \in AchIds :
                   Qualifies(a, completed_levels(db', u), total_puzzles(db', u), db.total_score[u])
                      => db'.user_achievements[<<u, a>>] = 1]_vars

\* a pass that found two achievements qualifying at once
C17_Witness ==
    /\ last.op = "complete_level_puzzle" /\ last.success /\ last.awarded >= 2
    /\ db.user_achievements[<<last.user, 1>>] = 1
    /\ db.user_achievements[<<last.user, 2>>] = 1

\* C18: every GridTemplate in the store has grid_data with exactly grid_size rows of
\* grid_size cells and at least one '?' cell
C18_TemplatesWellFormed ==
    \A t \in 1..Len(db.grid_templates) :
        LET template == db.grid_templates[t]
        IN  /\ Len(template.grid_data) = template.grid_size
            /\ \A i \in 1..Len(template.grid_data) :
                  Len(template.grid_data[i]) = template.grid_size
            /\ question_cells(template.grid_data) # {}

\* C19: the solution_data of every ShapeGame in the store has an entry for every '?' cell
\* of the linked GridTemplate
C19_SolutionCoversBlanks ==
    \A g \in 1..Len(db.authored_games) :
        question_cells(db.grid_templates[db.authored_games[g].grid_template].grid_data)
            \subseteq DOMAIN db.authored_games[g].solution_data

\* C20: when validate_shape_placement fails while api_save_shape_game_state is
\* finalizing an attempt (a placement value that is not a dict), the attempt that
\* is saved is not a completed one carrying the substituted zero score.
C20_ValidatorFailureNotPersisted ==
    (probe.status = "completed" /\ probe.validation.error)
        => probe.attempt.status # "completed"

\* the step ends request r with an error response
FailStep(r) == reqs[r].pc # "idle" /\ reqs'[r].pc = "idle" /\ ~last'.success

\* C21: the completion sequence of complete_level_puzzle is atomic: a request that ends
\* with an error has left none of its writes in the store, so it is no request that ran
\* the body of complete_attempt (every write of the body is committed when it is made)
C21_FailedRequestLeavesNoWrites ==
    [][\A r \in ReqIds :
          FailStep(r)
             => ~reqs[r].credited]_vars

\* the step handles a complete_level_puzzle request of u for the level puzzle (l, g)
CompletionStep(u, l, g) ==
    /\ last'.op = "complete_level_puzzle"
    /\ last'.user = u /\ last'.level = l /\ last'.game = g

\* C22: a complete_level_puzzle request for which no UserPuzzleAttempt exists, or whose
\* ShapeGameAttempt is not completed, returns an error and changes no UserPuzzleAttempt,
\* LevelProgress, UserAchievement or total_score
C22_UnreadyCompletionChangesNothing ==
    [][\A u \in Users, l \in LevelNumbers, g \in Games :
          (/\ CompletionStep(u, l, g)
           /\ \/ ~db.puzzle_attempts[<<u, <<l, g>>>>].exists
              \/ db.attempts[db.puzzle_attempts[<<u, <<l, g>>>>].shape_game_attempt].status
                    # "completed")
             => /\ ~last'.success
                /\ db'.puzzle_attempts = db.puzzle_attempts
                /\ db'.progress = db.progress
                /\ db'.user_achievements = db.user_achievements
                /\ db'.total_score = db.total_score]_vars

\* a completion request refused for a level puzzle whose attempt is still in progress
C22_Witness ==
    /\ last.op = "complete_level_puzzle" /\ ~last.success
    /\ db.puzzle_attempts[<<last.user, <<last.level, last.game>>>>].exists
    /\ db.attempts[db.puzzle_attempts[<<last.user, <<last.level, last.game>>>>].shape_game_attempt].status
          = "in_progress"
    /\ ~db.puzzle_attempts[<<last.user, <<last.level, last.game>>>>].is_completed

\* C23: a completion of a puzzle of level N creates or changes no LevelProgress row but
\* the ones of N and N+1 (none for a level beyond N+1), and when the row of N was marked
\* completed before, the completion step does not run again: the row stays completed
\* and the cascade creates no row for N+1
C23_CascadeStopsAtNextLevel ==
    [][\A u \in Users, l \in CascadeLevels, g \in Games :
          CreditStep(u, l, g)
             => /\ \A m \in CascadeLevels \ {l, l + 1} :
                      db'.progress[<<u, m>>] = db.progress[<<u, m>>]
                /\ db.progress[<<u, l>>].is_completed
                      => /\ db'.progress[<<u, l>>].is_completed
                         /\ l + 1 \in CascadeLevels
                               => db'.progress[<<u, l + 1>>] = db.progress[<<u, l + 1>>]]_vars

\* level 1 completed by its first puzzle while the levels 2 and 3 were there, and a
\* second puzzle of level 1 credited afterwards
C23_Witness ==
    /\ last.op = "complete_level_puzzle" /\ last.credited /\ last.level = 1
    /\ db.progress[<<last.user, 1>>].is_completed
    /\ db.progress[<<last.user, 1>>].puzzles_completed = 2
    /\ db.levels[2].exists /\ db.levels[2].is_active
    /\ db.levels[3].exists /\ db.levels[3].is_active
    /\ db.progress[<<last.user, 2>>].exists
    /\ ~db.progress[<<last.user, 3>>].exists

\* the achievements of which the step creates a UserAchievement for u
GrantedInStep(u) ==
    {a \in AchIds : db'.user_achievements[<<u, a>>] > db.user_achievements[<<u, a>>]}

\* C24: a complete_level_puzzle request that credits score s and grants achievements with
\* rewards r1..rk increases the user's total_score by exactly s + r1 + ... + rk
C24_TotalScoreGainsScoreAndRewards ==
    [][\A u \in Users, l \in LevelNumbers, g \in Games :
          (CompletionStep(u, l, g) /\ last'.success)
             => db'.total_score[u] =
                   db.total_score[u]
                     + (IF last'.credited THEN last'.score ELSE 0)
                     + SumRewards(SortedSeq(GrantedInStep(u)))]_vars

\* request r has answered success after running the body of complete_attempt
Succeeded(r) == reqs[r].pc = "done" /\ reqs[r].success /\ reqs[r].credited

\* C25: when two complete_level_puzzle requests of one user for two different puzzles of
\* one level have run concurrently and both have succeeded (and these are the completions
\* the level has seen), the level's puzzles_completed has grown by 2 and its total_score
\* by the sum of both scores
C25_ConcurrentCompletionsBothCounted ==
    \A r1, r2 \in ReqIds :
        (/\ r1 # r2 /\ Succeeded(r1) /\ Succeeded(r2)
         /\ reqs[r1].user = reqs[r2].user /\ reqs[r1].level = reqs[r2].level
         /\ reqs[r1].game # reqs[r2].game
         /\ \A r \in ReqIds \ {r1, r2} : ~reqs[r].credited)
            => LET row == db.progress[<<reqs[r1].user, reqs[r1].level>>]
               IN  /\ row.exists
                   /\ row.puzzles_completed = 2
                   /\ row.total_score = reqs[r1].score + reqs[r2].score

\* the stored results of attempt a are the validator's outputs for its stored
\* current_state and the puzzle as the store d holds it
ResultsMatchValidator(d, a) ==
    LET v == validate_shape_placement(d.shape_games[a.shape_game], a.current_state)
    IN  /\ a.score = v.final_score
        /\ a.accuracy = v.accuracy
        /\ a.correct_placements = v.correct_count
        /\ a.incorrect_placements = v.incorrect_count

\* C26 as claimed: for every completed ShapeGameAttempt the stored score, accuracy,
\* correct_placements and incorrect_placements equal the validator's outputs for its stored
\* current_state, and time_taken_seconds equals end_time minus start_time
C26_CompletedResultsMatchValidator ==
    \A i \in 1..Len(db.attempts) :
        db.attempts[i].status = "completed"
           => /\ ResultsMatchValidator(db, db.attempts[i])
              /\ db.attempts[i].time_taken_seconds * TicksPerSecond
                    = db.attempts[i].end_time - db.attempts[i].start_time

\* C26 amended: in the step that completes a ShapeGameAttempt the stored results equal the
\* validator's outputs for its stored current_state and the puzzle as it is then, and
\* time_taken_seconds is the number of whole seconds of end_time minus start_time; a
\* completed attempt is not written again
C26_ResultsMatchValidatorAtFinalize ==
    [][\A i \in 1..Len(db'.attempts) :
          db'.attempts[i].status = "completed"
             => IF i <= Len(db.attempts) /\ db.attempts[i].status = "completed"
                THEN db'.attempts[i] = db.attempts[i]
                ELSE LET a == db'.attempts[i]
                     IN  /\ ResultsMatchValidator(db', a)
                         /\ a.time_taken_seconds * TicksPerSecond <= a.end_time - a.start_time
                         /\ a.end_time - a.start_time < (a.time_taken_seconds + 1) * TicksPerSecond]_vars

\* an attempt completed a second and a half after its start, with a positive score
C26_Witness ==
    \E i \in 1..Len(db.attempts) :
        /\ db.attempts[i].status = "completed"
        /\ db.attempts[i].score > 0
        /\ db.attempts[i].end_time - db.attempts[i].start_time = TicksPerSecond + 1
        /\ db.attempts[i].time_taken_seconds = 1

\* C27: in every state between requests, for each (user, level) with a LevelProgress row,
\* puzzles_completed equals the number of the user's UserPuzzleAttempt rows with
\* is_completed whose level puzzle belongs to that level
C27_CounterMatchesCompletedAttempts ==
    \A u \in Users, l \in LevelNumbers :
        db.progress[<<u, l>>].exists
           => db.progress[<<u, l>>].puzzles_completed = Cardinality(completed_slots(db, u, l))

\* C28: complete_level_puzzle increments a level's puzzles_completed for a user only if
\* that level is unlocked for that user (is_unlocked_for_user) when it increments
C28_CreditOnlyWhenUnlocked ==
    [][\A u \in Users, l \in LevelNumbers, g \in Games :
          CreditStep(u, l, g) => is_unlocked_for_user(db, u, l)]_vars

\* models.py 200-204: the number of '?' cells times points_per_correct
calculate_max_score(game) == total_questions_of(game.grid_data) * game.points_per_correct

\* C29: in every reachable state every ShapeGameAttempt, in progress or completed, has a
\* stored score between 0 and the maximum score of its puzzle
C29_ScoreWithinMaximum ==
    \A i \in 1..Len(db.attempts) :
        /\ db.attempts[i].score >= 0
        /\ db.attempts[i].score <= calculate_max_score(db.shape_games[db.attempts[i].shape_game])

\* C30: for the legacy Sudoku GameSession, repeated api_save_game_state requests with
\* is_completed = true for one session add the session's score to the user's total_score
\* and increment games_played and games_won at most once, and only when the session
\* itself is persisted as completed
C30_SessionCountedOnceWhenPersisted ==
    \A s \in 1..Len(db.game_sessions) :
        LET gs == db.game_sessions[s]
            u  == gs.user
        IN  IF gs.status = "completed"
            THEN /\ db.games_played[u] <= 1
                 /\ db.games_won[u] <= 1
                 /\ db.total_score[u] <= gs.score
            ELSE /\ db.games_played[u] = 0
                 /\ db.games_won[u] = 0
                 /\ db.total_score[u] = 0

====
